---- MODULE Spec2Model ----
(***************************************************************************)
(* A model of assin/t5_assin.py: the PearsonCalculator accumulator, the    *)
(* numeric decoding of generated text in validation_step, and the          *)
(* architecture dispatch of T5ASSIN (constructor, forward, the per-step    *)
(* and per-epoch hooks the training harness calls).                        *)
(*                                                                         *)
(* Numbers.  Array elements of the accumulator are integers.  A Python     *)
(* float produced by float(word) is a record: [k |-> "num", n, d] is the   *)
(* rational n/d (d a power of ten), [k |-> "inf", s] is s*infinity and     *)
(* [k |-> "nan"] is NaN.  A Pearson coefficient r is the exact record      *)
(* [k |-> "r", s, p, q] with r = s * sqrt(p/q), p/q in lowest terms.       *)
(* The float tensors of the model (the scores forward returns and          *)
(* original_number) are fixed-point integers in thousandths: 3924 is       *)
(* 3.924.  sigmoid is tabulated to that precision, so distinct arguments   *)
(* keep distinct scores, and a Pearson value computed from the scores      *)
(* agrees with the floating-point one to about three decimals.             *)
(***************************************************************************)
EXTENDS Integers, Sequences, FiniteSets

(***************************************************************************)
(* Bounds of the model.                                                    *)
(***************************************************************************)
\* longest generated text, in characters
MaxText == 4
\* longest array handed to one PearsonCalculator.__call__
MaxBatch == 2
\* cap on the length of each running sequence
MaxTotal == 3

\* characters a generated text is made of
Alphabet == {" ", "0", "3", "7", ".", "-", "n", "a", "i", "f"}
\* element values of the arrays handed to the accumulator
Vals == {1, 2}

VARIABLES
    y_hat,      \* PearsonCalculator.y_hat
    y,          \* PearsonCalculator.y
    last,       \* the operation that ran last
    args,       \* the shapes of the arguments of the last __call__
    ret,        \* the Pearson value the last operation returned, if it returned one
    raised,     \* the exception the last operation raised, or "none"
    warned,     \* whether the last calculate_pearson logged its warning
    pairs,      \* history: the (prediction, target) pairs observed since the reset
    paired,     \* history: every __call__ since the reset had equal-length arrays
    used,       \* history: pairs and paired as they were when calculate_pearson ran
    text,       \* a decoded generated phrase
    decoded,    \* the y_hat[n] validation_step computes from text
    hparams,    \* T5ASSIN.hparams
    model,      \* the T5ASSIN object: size, t5, linear, loss and its NONLinearInput
    phase,      \* where the training harness is: new, failed, train, val, crashed
    epoch,      \* the epochs the harness has finished
    outputs,    \* the step results of the running phase, handed to its epoch-end hook
    logs,       \* what the last validation_epoch_end logged
    fwd,        \* what the last forward returned
    epoch_pairs,\* history: the (prediction, target) pairs of this epoch's validation steps
    reported    \* history: epoch_pairs as they were when validation_epoch_end ran

accVars == <<y_hat, y, last, args, ret, raised, warned, pairs, paired, used>>
decVars == <<text, decoded>>
modelVars == <<hparams, model, phase, epoch, outputs, logs, fwd, epoch_pairs, reported>>

(***************************************************************************)
(* Helpers on sequences and integers.                                      *)
(***************************************************************************)
SeqsUpTo(S, n) == UNION {[1..k -> S] : k \in 0..n}

RECURSIVE SumSeq(_)
SumSeq(s) == IF s = <<>> THEN 0 ELSE Head(s) + SumSeq(Tail(s))

RECURSIVE Gcd(_, _)
Gcd(a, b) == IF b = 0 THEN a ELSE Gcd(b, a % b)

Min(a, b) == IF a < b THEN a ELSE b
Max(a, b) == IF a > b THEN a ELSE b

RECURSIVE Pow10(_)
Pow10(k) == IF k = 0 THEN 1 ELSE 10 * Pow10(k - 1)

(***************************************************************************)
(* Python floats, as far as validation_step uses them.                     *)
(***************************************************************************)
Num(n, d) == [k |-> "num", n |-> n, d |-> d]
NaN == [k |-> "nan"]
Inf(s) == [k |-> "inf", s |-> s]
\* float(word) raised ValueError
ValueError == [k |-> "ValueError"]

\* a > b on floats: false when either side is NaN
FloatGT(a, b) ==
    CASE a.k = "nan" \/ b.k = "nan" -> FALSE
      [] a.k = "inf" /\ b.k = "inf" -> a.s > b.s
      [] a.k = "inf" -> a.s > 0
      [] b.k = "inf" -> b.s < 0
      [] OTHER -> a.n * b.d > b.n * a.d

FloatLT(a, b) == FloatGT(b, a)

(***************************************************************************)
(* str.split(): the maximal runs of non-whitespace characters, in order.   *)
(***************************************************************************)
IsSpace(c) == c = " "

RECURSIVE SplitFrom(_, _, _)
SplitFrom(s, cur, acc) ==
    IF s = <<>> THEN (IF cur = <<>> THEN acc ELSE Append(acc, cur))
    ELSE IF IsSpace(Head(s))
         THEN SplitFrom(Tail(s), <<>>, IF cur = <<>> THEN acc ELSE Append(acc, cur))
         ELSE SplitFrom(Tail(s), Append(cur, Head(s)), acc)

Split(s) == SplitFrom(s, <<>>, <<>>)

(***************************************************************************)
(* float(word), for words over Alphabet: an optional minus sign, then      *)
(* "nan", "inf", or decimal digits with at most one point and at least one *)
(* digit.  Anything else raises ValueError.                                *)
(***************************************************************************)
Digits == {"0", "3", "7"}

DigitVal(c) == CASE c = "0" -> 0 [] c = "3" -> 3 [] c = "7" -> 7

RECURSIVE DigitsVal(_, _)
DigitsVal(s, acc) ==
    IF s = <<>> THEN acc ELSE DigitsVal(Tail(s), 10 * acc + DigitVal(Head(s)))

PointsIn(s) == {i \in 1..Len(s) : s[i] = "."}

IsDecimal(s) ==
    /\ \A i \in 1..Len(s) : s[i] \in Digits \cup {"."}
    /\ Cardinality(PointsIn(s)) <= 1
    /\ \E i \in 1..Len(s) : s[i] \in Digits

DecimalVal(s) ==
    LET p == PointsIn(s)
        digs == SelectSeq(s, LAMBDA c : c # ".")
        frac == IF p = {} THEN 0 ELSE Len(s) - (CHOOSE i \in p : TRUE)
    IN Num(DigitsVal(digs, 0), Pow10(frac))

ParseFloat(word) ==
    LET neg == word # <<>> /\ Head(word) = "-"
        body == IF neg THEN Tail(word) ELSE word
        sgn == IF neg THEN -1 ELSE 1
    IN CASE body = <<"n", "a", "n">> -> NaN
         [] body = <<"i", "n", "f">> -> Inf(sgn)
         [] IsDecimal(body) -> LET v == DecimalVal(body) IN Num(sgn * v.n, v.d)
         [] OTHER -> ValueError

(***************************************************************************)
(* validation_step, "gen" branch, lines 201-212: the value of y_hat[n] for *)
(* one phrase.  y_hat starts as zeros; the first word float() accepts is   *)
(* clamped by the two comparisons and stored, and the loop breaks.         *)
(***************************************************************************)
Clamp(number) ==
    IF FloatGT(number, Num(5, 1)) THEN Num(5, 1)
    ELSE IF FloatLT(number, Num(1, 1)) THEN Num(1, 1)
    ELSE number

RECURSIVE ScanWords(_)
ScanWords(words) ==
    IF words = <<>> THEN Num(0, 1)
    ELSE LET number == ParseFloat(Head(words))
         IN IF number = ValueError THEN ScanWords(Tail(words))
            ELSE Clamp(number)

DecodePhrase(phrase) == ScanWords(Split(phrase))

(***************************************************************************)
(* numpy arrays handed to the accumulator: a shape and the flat data.      *)
(***************************************************************************)
Array1D(s) == [shape |-> <<Len(s)>>, data |-> s]
Array0D(v) == [shape |-> <<>>, data |-> <<v>>]
Array2D(s) == [shape |-> <<Len(s), 1>>, data |-> s]

Arrays1D == {Array1D(s) : s \in SeqsUpTo(Vals, MaxBatch)}
\* arrays that are not one-dimensional: a scalar, a column, a matrix row
NonVectors == {Array0D(1), Array2D(<<2>>), Array2D(<<1, 2>>)}
Arrays == Arrays1D \cup NonVectors

\* a slip: the arguments of np.concatenate the other way round
ConcatenateSwapped(a, b) == b \o a

\* np.concatenate of two one-dimensional arrays
Concatenate(a, b) == a \o b

(***************************************************************************)
(* scipy.stats.pearsonr(x, y)[0].  Arrays of different length raise        *)
(* ValueError, a constant array gives nan, and otherwise                   *)
(*   r = Sxy / sqrt(Sxx * Syy),  Sxy = n*sum(x*y) - sum(x)*sum(y).         *)
(* Sxy does not change when x or y is shifted by a constant (pearsonr      *)
(* itself subtracts the means); it is computed on x - x[1] and y - y[1],   *)
(* and r*r is reduced factor by factor, which keeps every product small.   *)
(***************************************************************************)
NoValue == [k |-> "none"]
R(s, p, q) == [k |-> "r", s |-> s, p |-> p, q |-> q]

Products(x, z) == [i \in 1..Len(x) |-> x[i] * z[i]]

\* x - x[1]
Shifted(x) == [i \in 1..Len(x) |-> x[i] - x[1]]

Cross(x, z) ==
    LET dx == Shifted(x)
        dz == Shifted(z)
    IN Len(x) * SumSeq(Products(dx, dz)) - SumSeq(dx) * SumSeq(dz)

Sign(a) == IF a > 0 THEN 1 ELSE IF a < 0 THEN -1 ELSE 0

Abs(a) == IF a < 0 THEN -a ELSE a

\* s * sqrt((a * a) / (sxx * szz)) with the fraction in lowest terms
Reduced(s, a, sxx, szz) ==
    LET g1 == Gcd(a, sxx)
        a1 == a \div g1
        x1 == sxx \div g1
        g2 == Gcd(a, szz)
        a2 == a \div g2
        z2 == szz \div g2
        g3 == Gcd(a1, z2)
        g4 == Gcd(a2, x1)
    IN R(s, (a1 \div g3) * (a2 \div g4), (x1 \div g4) * (z2 \div g3))

pearsonr(x, z) ==
    IF Len(x) # Len(z) THEN ValueError
    ELSE LET sxy == Cross(x, z)
             sxx == Cross(x, x)
             szz == Cross(z, z)
         IN IF sxx = 0 \/ szz = 0 THEN NaN
            ELSE IF sxy = 0 THEN R(0, 0, 1)
            ELSE Reduced(Sign(sxy), Abs(sxy), sxx, szz)

(***************************************************************************)
(* PearsonCalculator                                                       *)
(***************************************************************************)
\* __init__, lines 43-45
PearsonCalculatorInit == [y_hat |-> <<>>, y |-> <<>>]

\* __call__, lines 47-52: the two asserts, then the two concatenations
CallResult(self, a_hat, a_y) ==
    IF Len(a_hat.shape) # 1 \/ Len(a_y.shape) # 1
    THEN [y_hat |-> self.y_hat, y |-> self.y, raised |-> "AssertionError"]
    ELSE [y_hat |-> Concatenate(self.y_hat, a_hat.data),
          y |-> Concatenate(self.y, a_y.data),
          raised |-> "none"]

\* a slip: the test of line 55 off by one
NotEnoughSamplesOffByOne(self) == Len(self.y) <= 2

\* the test of line 55
NotEnoughSamples(self) == Len(self.y) < 2

\* calculate_pearson, lines 54-64: an exception of pearsonr leaves before the reset
CalcResult(self) ==
    IF NotEnoughSamples(self)
    THEN [y_hat |-> <<>>, y |-> <<>>, ret |-> NaN, raised |-> "none", warned |-> TRUE]
    ELSE LET r == pearsonr(self.y, self.y_hat)
         IN IF r = ValueError
            THEN [y_hat |-> self.y_hat, y |-> self.y, ret |-> NoValue,
                  raised |-> "ValueError", warned |-> FALSE]
            ELSE [y_hat |-> <<>>, y |-> <<>>, ret |-> r, raised |-> "none",
                  warned |-> FALSE]

(***************************************************************************)
(* The accumulator on its own: any caller, any arrays.                     *)
(***************************************************************************)
Zip(a, b) == [i \in 1..Len(a) |-> <<a[i], b[i]>>]

Observe(a_hat, a_y) ==
    LET res == CallResult([y_hat |-> y_hat, y |-> y], a_hat, a_y)
        same == Len(a_hat.data) = Len(a_y.data)
    IN /\ Len(res.y_hat) <= MaxTotal
       /\ Len(res.y) <= MaxTotal
       /\ y_hat' = res.y_hat
       /\ y' = res.y
       /\ raised' = res.raised
       /\ last' = "call"
       /\ args' = <<a_hat.shape, a_y.shape>>
       /\ ret' = NoValue
       /\ warned' = FALSE
       /\ used' = NoValue
       /\ IF res.raised # "none" THEN UNCHANGED <<pairs, paired>>
          ELSE IF paired /\ same
               THEN /\ pairs' = pairs \o Zip(a_hat.data, a_y.data)
                    /\ paired' = TRUE
               ELSE /\ pairs' = <<>>
                    /\ paired' = FALSE
       /\ UNCHANGED <<decVars, modelVars>>

CalculatePearson ==
    LET res == CalcResult([y_hat |-> y_hat, y |-> y])
    IN /\ y_hat' = res.y_hat
       /\ y' = res.y
       /\ ret' = res.ret
       /\ raised' = res.raised
       /\ warned' = res.warned
       /\ last' = "calculate_pearson"
       /\ args' = <<>>
       /\ used' = [k |-> "used", pairs |-> pairs, paired |-> paired,
                   n_hat |-> Len(y_hat), n_y |-> Len(y)]
       /\ IF res.raised = "none"
          THEN pairs' = <<>> /\ paired' = TRUE
          ELSE UNCHANGED <<pairs, paired>>
       /\ UNCHANGED <<decVars, modelVars>>

vars == <<y_hat, y, last, args, ret, raised, warned, pairs, paired, used, text, decoded,
          hparams, model, phase, epoch, outputs, logs, fwd, epoch_pairs, reported>>

InitAcc ==
    /\ y_hat = PearsonCalculatorInit.y_hat
    /\ y = PearsonCalculatorInit.y
    /\ last = "init"
    /\ args = <<>>
    /\ ret = NoValue
    /\ raised = "none"
    /\ warned = FALSE
    /\ pairs = <<>>
    /\ paired = TRUE
    /\ used = NoValue
    /\ text = <<>>
    /\ decoded = NoValue
    /\ hparams = NoValue
    /\ model = NoValue
    /\ phase = "new"
    /\ epoch = 0
    /\ outputs = <<>>
    /\ logs = NoValue
    /\ fwd = NoValue
    /\ epoch_pairs = <<>>
    /\ reported = NoValue

NextAcc ==
    \/ \E a_hat \in Arrays, a_y \in Arrays : Observe(a_hat, a_y)
    \/ CalculatePearson

SpecAcc == InitAcc /\ [][NextAcc]_vars

(***************************************************************************)
(* The numeric decoding on its own: any text over Alphabet.                *)
(***************************************************************************)
Texts == SeqsUpTo(Alphabet, MaxText)

Decode ==
    /\ decoded = NoValue
    /\ decoded' = DecodePhrase(text)
    /\ UNCHANGED text
    /\ UNCHANGED <<accVars, modelVars>>

InitDec ==
    /\ text \in Texts
    /\ decoded = NoValue
    /\ y_hat = PearsonCalculatorInit.y_hat
    /\ y = PearsonCalculatorInit.y
    /\ last = "init"
    /\ args = <<>>
    /\ ret = NoValue
    /\ raised = "none"
    /\ warned = FALSE
    /\ pairs = <<>>
    /\ paired = TRUE
    /\ used = NoValue
    /\ hparams = NoValue
    /\ model = NoValue
    /\ phase = "new"
    /\ epoch = 0
    /\ outputs = <<>>
    /\ logs = NoValue
    /\ fwd = NoValue
    /\ epoch_pairs = <<>>
    /\ reported = NoValue

NextDec == Decode

SpecDec == InitDec /\ [][NextDec]_vars

(***************************************************************************)
(* T5ASSIN.  The pretrained backbone, the tokenizer and torch's loss       *)
(* functions are collaborators: a loss is named, not evaluated; the pooled *)
(* backbone output of an example and the text decoded from its generated   *)
(* tokens come with the example.  Hidden vectors have one component, so a  *)
(* Linear layer has one weight and one bias per output.  The loads of      *)
(* __init__ (tokenizer, checkpoint, backbone) succeed or raise as the      *)
(* environment decides.                                                    *)
(***************************************************************************)
\* hparams.model_name
ModelNames == {<<"t", "5", "-", "s", "m", "a", "l", "l">>,
               <<"p", "t", "t", "5", "-", "b", "a", "s", "e">>,
               <<"t", "5", "-", "t", "i", "n", "y">>}
\* hparams.architecture
Architectures ==
    {"mlp", "categoric", "gen", "categoric_gen", "similarity", "bogus", "categorical"}
\* hparams.nout
NOuts == {0, 1, 3}
\* values of a Linear layer's weights; its biases
Weights == {-1, 2}
Biases == {0}

\* nout is read in the categoric mode only (line 124); elsewhere it keeps the
\* default of line 305
HParams ==
    {hp \in [model_name : ModelNames, architecture : Architectures, nout : NOuts] :
        hp.architecture = "categoric" \/ hp.nout = 1}

\* str.split(sep): the pieces between separators, empty ones kept
RECURSIVE SplitOnFrom(_, _, _, _)
SplitOnFrom(s, sep, cur, acc) ==
    IF s = <<>> THEN Append(acc, cur)
    ELSE IF Head(s) = sep THEN SplitOnFrom(Tail(s), sep, <<>>, Append(acc, cur))
         ELSE SplitOnFrom(Tail(s), sep, Append(cur, Head(s)), acc)

SplitOn(s, sep) == SplitOnFrom(s, sep, <<>>, <<>>)

Contains(seq, w) == \E i \in 1..Len(seq) : seq[i] = w

\* lines 88-95: the size named in model_name, or ValueError
DetectSize(model_name) ==
    LET parts == SplitOn(model_name, "-")
    IN IF Contains(parts, <<"s", "m", "a", "l", "l">>) THEN "small"
       ELSE IF Contains(parts, <<"b", "a", "s", "e">>) THEN "base"
       ELSE IF Contains(parts, <<"l", "a", "r", "g", "e">>) THEN "large"
       ELSE "ValueError"

\* line 97: model_name[:2] == "pt"
IsPTT5(model_name) == SubSeq(model_name, 1, Min(2, Len(model_name))) = <<"p", "t">>

\* lines 100 and 110: the backbone class loaded
BackboneFor(architecture) ==
    IF architecture \in {"gen", "categoric_gen"}
    THEN "T5ForConditionalGeneration" ELSE "T5Model"

\* lines 117-119: the mlp mode replaces the backbone
T5For(architecture) ==
    IF architecture = "mlp" THEN "NONLinearInput" ELSE BackboneFor(architecture)

\* line 123: the assert of the categoric mode
NOutAccepted(nout) == nout # 1

\* line 121: the modes with a self.linear
HasHead(architecture) == architecture \notin {"gen", "categoric_gen"}

\* lines 122-126: the outputs of self.linear
HeadOutputs(hp) == IF hp.architecture = "categoric" THEN hp.nout ELSE 1

\* lines 128-131
LossFor(architecture) ==
    IF architecture \in {"categoric", "categoric_gen"}
    THEN "CrossEntropyLoss" ELSE "MSELoss"

Absent == [k |-> "absent"]
Linear(w, b) == [k |-> "Linear", out |-> Len(w), w |-> w, b |-> b]

\* nn.Linear(D, out) as initialised: any weights
LinearLayers(out) == {Linear(w, b) : w \in [1..out -> Weights], b \in [1..out -> Biases]}

Failed(error) == [status |-> "failed", error |-> error]

\* what the loads of __init__ find.  tokenizer: lines 82-85 return a
\* tokenizer; ckpt_found: get_ptt5 finds exactly one checkpoint and one config
\* (the assert of line 145); loaded: from_json_file and torch.load read them
\* (lines 154-155); pretrained: from_pretrained returns a backbone (lines
\* 100-112)
Envs == [tokenizer : BOOLEAN, ckpt_found : BOOLEAN, loaded : BOOLEAN,
         pretrained : BOOLEAN]

\* T5ASSIN.__init__, lines 79-135.  net and linear are the layers as torch
\* initialised them.  A load that fails raises the loader's exception:
\* OSError from the transformers loaders, UnpicklingError for an unreadable
\* checkpoint.
T5ASSINInit(hp, env, net, linear) ==
    IF ~env.tokenizer THEN Failed("OSError")
    ELSE IF DetectSize(hp.model_name) = "ValueError" THEN Failed("ValueError")
    ELSE IF IsPTT5(hp.model_name) /\ ~env.ckpt_found THEN Failed("AssertionError")
    ELSE IF IsPTT5(hp.model_name) /\ ~env.loaded THEN Failed("UnpicklingError")
    ELSE IF ~env.pretrained THEN Failed("OSError")
    ELSE IF hp.architecture = "categoric" /\ ~NOutAccepted(hp.nout)
         THEN Failed("AssertionError")
    ELSE [status |-> "ready",
          error |-> "none",
          size |-> DetectSize(hp.model_name),
          t5 |-> T5For(hp.architecture),
          net |-> IF hp.architecture = "mlp" THEN net ELSE Absent,
          linear |-> IF HasHead(hp.architecture) THEN linear ELSE Absent,
          loss |-> LossFor(hp.architecture)]

\* the layers __init__ may create for hp
NetsFor(hp) == IF hp.architecture = "mlp" THEN LinearLayers(1) ELSE {Absent}
HeadsFor(hp) ==
    IF HasHead(hp.architecture) THEN LinearLayers(HeadOutputs(hp)) ELSE {Absent}

(***************************************************************************)
(* forward                                                                 *)
(***************************************************************************)
\* the float n, in thousandths
Fixed(n) == n * Pow10(3)

\* 4 * sigmoid(z) for z = 0, 1, ..., 8, in thousandths
Sig4Table == <<2000, 2924, 3523, 3810, 3928, 3973, 3990, 3996, 3999>>

\* 4 * sigmoid(z) in thousandths; sigmoid(-z) = 1 - sigmoid(z)
Sig4(z) ==
    IF z >= Len(Sig4Table) THEN Fixed(4)
    ELSE IF z >= 0 THEN Sig4Table[z + 1]
    ELSE IF -z >= Len(Sig4Table) THEN 0
    ELSE Fixed(4) - Sig4Table[1 - z]

\* 1 + sigmoid(z) * 4, in thousandths
Squash(z) == Fixed(1) + Sig4(z)

Relu(z) == Max(z, 0)

\* nn.Dropout(0.5): the identity in evaluation; in training an element is
\* zeroed or doubled
Dropout(z, training, dropped) ==
    IF ~training THEN z ELSE IF dropped THEN 0 ELSE 2 * z

\* nn.Linear on a hidden vector of one component: one value per output.
\* one is the representation of 1.0 in the units of h
LinearApply(lin, h, one) == [c \in 1..lin.out |-> lin.w[c] * h + lin.b[c] * one]

\* NONLinearInput.forward, lines 74-75
NONLinearInputForward(net, x, training, dropped) ==
    Squash(Dropout(Relu(LinearApply(net, x, 1)[1]), training, dropped))

\* forward, lines 161-162: the mlp branch, one example
ForwardMlp(self, example, training, dropped) ==
    LinearApply(self.linear,
                NONLinearInputForward(self.net, example.ids, training, dropped),
                Fixed(1))

\* forward, lines 163-166: the categoric branch, one example
ForwardCategoric(self, example) == LinearApply(self.linear, example.hidden, 1)

\* forward, lines 177-180: the default branch, one example
ForwardDefault(self, example) ==
    LET row == LinearApply(self.linear, example.hidden, 1)
    IN [c \in 1..Len(row) |-> Squash(row[c])]

\* forward, lines 158-180.  mask[i]: dropout zeroes example i's hidden value
Forward(self, hp, training, batch, mask) ==
    CASE hp.architecture = "mlp" ->
           [k |-> "rows",
            v |-> [i \in 1..Len(batch) |-> ForwardMlp(self, batch[i], training, mask[i])]]
      [] hp.architecture = "categoric" ->
           [k |-> "rows", v |-> [i \in 1..Len(batch) |-> ForwardCategoric(self, batch[i])]]
      [] hp.architecture \in {"gen", "categoric_gen"} ->
           IF training THEN [k |-> "lm_loss"]
           ELSE [k |-> "tokens", v |-> [i \in 1..Len(batch) |-> batch[i].gen]]
      [] OTHER ->
           [k |-> "rows", v |-> [i \in 1..Len(batch) |-> ForwardDefault(self, batch[i])]]

\* tensor.squeeze(-1) of a [batch, out] tensor: drops the last axis when it is 1
Squeeze(rows) ==
    IF rows # <<>> /\ \A i \in 1..Len(rows) : Len(rows[i]) = 1
    THEN [shape |-> <<Len(rows)>>, data |-> [i \in 1..Len(rows) |-> rows[i][1]]]
    ELSE [shape |-> <<Len(rows), IF rows = <<>> THEN 0 ELSE Len(rows[1])>>, data |-> rows]

(***************************************************************************)
(* Batches.  An example carries input_ids (ids), the pooled backbone       *)
(* output (hidden), the text decoded from the generated tokens (gen), the  *)
(* text decoded from the target tokens (y) and original_number (number):   *)
(* a similarity score in thousandths, or a class index.                    *)
(***************************************************************************)
Example(ids, hidden, gen, ytext, number) ==
    [ids |-> ids, hidden |-> hidden, gen |-> gen, y |-> ytext, number |-> number]

\* the dataset with categoric=False: similarity scores
ScoreExamples ==
    {Example(0, -1, <<"3", ".", "7">>, <<"3">>, Fixed(3)),
     Example(1, 1, <<"n", "a", "n">>, <<"7">>, Fixed(5)),
     Example(-1, 2, <<"a", " ", "7">>, <<"0">>, Fixed(1))}

\* the dataset with categoric=True: class indices and label texts
ClassExamples ==
    {Example(0, -1, <<"a", " ">>, <<"a">>, 0),
     Example(1, 1, <<"n">>, <<"a">>, 0),
     Example(-1, 2, <<"n">>, <<"n">>, 1)}

\* hparams.bs
BatchSizes == {1, 2}

\* the characters of an architecture string
Chars(architecture) ==
    CASE architecture = "mlp" -> <<"m", "l", "p">>
      [] architecture = "categoric" -> <<"c", "a", "t", "e", "g", "o", "r", "i", "c">>
      [] architecture = "gen" -> <<"g", "e", "n">>
      [] architecture = "categoric_gen" ->
           <<"c", "a", "t", "e", "g", "o", "r", "i", "c", "_", "g", "e", "n">>
      [] architecture = "similarity" ->
           <<"s", "i", "m", "i", "l", "a", "r", "i", "t", "y">>
      [] architecture = "bogus" -> <<"b", "o", "g", "u", "s">>
      [] architecture = "categorical" ->
           <<"c", "a", "t", "e", "g", "o", "r", "i", "c", "a", "l">>

\* sub in s, for strings
IsSubstring(sub, s) ==
    \E i \in 0..(Len(s) - Len(sub)) : SubSeq(s, i + 1, i + Len(sub)) = sub

\* lines 280 and 285: categoric="categoric" in architecture
IsCategoricData(architecture) ==
    IsSubstring(<<"c", "a", "t", "e", "g", "o", "r", "i", "c">>, Chars(architecture))

\* __main__, lines 339-348: the metric the checkpoint callback monitors
MonitorFor(architecture) ==
    IF IsCategoricData(architecture) THEN "val_acc" ELSE "val_loss"

BatchesFor(hp) ==
    LET examples == IF IsCategoricData(hp.architecture) THEN ClassExamples
                    ELSE ScoreExamples
    IN UNION {[1..n -> examples] : n \in BatchSizes}

Numbers(batch) == [i \in 1..Len(batch) |-> batch[i].number]

\* original_number.cpu().numpy() as appended to the float arrays of the
\* accumulator: a class index becomes a float
FloatNumbers(hp, batch) ==
    IF IsCategoricData(hp.architecture)
    THEN [i \in 1..Len(batch) |-> Fixed(batch[i].number)]
    ELSE Numbers(batch)

\* str.strip()
RECURSIVE StripLeft(_)
StripLeft(s) == IF s # <<>> /\ IsSpace(Head(s)) THEN StripLeft(Tail(s)) ELSE s

RECURSIVE StripRight(_)
StripRight(s) ==
    IF s # <<>> /\ IsSpace(s[Len(s)]) THEN StripRight(SubSeq(s, 1, Len(s) - 1)) ELSE s

Strip(s) == StripRight(StripLeft(s))

\* tensor.argmax(dim=1) of one row: the 0-based index of its first maximum
ArgMax(row) ==
    (CHOOSE c \in 1..Len(row) :
        /\ \A d \in 1..Len(row) : row[d] <= row[c]
        /\ \A d \in 1..(c - 1) : row[d] < row[c]) - 1

\* the mean of a comparison: <<hits, n>>
MeanOf(flags) == <<Cardinality({i \in 1..Len(flags) : flags[i]}), Len(flags)>>

\* nn.CrossEntropyLoss needs at least one class
LossRaises(self, rows) ==
    self.loss = "CrossEntropyLoss" /\ \E i \in 1..Len(rows) : Len(rows[i]) = 0

(***************************************************************************)
(* The hooks.  Each returns the step's result, what it raised and the      *)
(* accumulator it leaves.                                                  *)
(***************************************************************************)
\* training_step, lines 182-191
TrainingStepResult(self, hp, batch, mask) ==
    LET f == Forward(self, hp, TRUE, batch, mask)
    IN IF hp.architecture \in {"gen", "categoric_gen"}
       THEN [out |-> [loss |-> "lm_loss"], raised |-> "none", fwd |-> f]
       ELSE IF LossRaises(self, f.v)
            THEN [out |-> NoValue, raised |-> "RuntimeError", fwd |-> f]
            ELSE [out |-> [loss |-> self.loss], raised |-> "none", fwd |-> f]

\* validation_step, lines 193-233
ValidationStepResult(self, hp, pc, batch) ==
    LET f == Forward(self, hp, FALSE, batch, [i \in 1..Len(batch) |-> FALSE])
    IN CASE hp.architecture = "gen" ->
              LET yh == [n \in 1..Len(batch) |-> DecodePhrase(f.v[n])]
              IN [out |-> [loss |-> self.loss], pc |-> pc, raised |-> "none",
                  fwd |-> f, preds |-> yh]
         [] hp.architecture = "categoric_gen" ->
              LET hits == [n \in 1..Len(batch) |-> Strip(f.v[n]) = Strip(batch[n].y)]
              IN [out |-> [acc |-> MeanOf(hits)], pc |-> pc, raised |-> "none",
                  fwd |-> f, preds |-> <<>>]
         [] hp.architecture = "categoric" ->
              IF LossRaises(self, f.v)
              THEN [out |-> NoValue, pc |-> pc, raised |-> "RuntimeError",
                    fwd |-> f, preds |-> <<>>]
              ELSE LET hits == [n \in 1..Len(batch) |->
                                   ArgMax(f.v[n]) = batch[n].number]
                   IN [out |-> [loss |-> self.loss, acc |-> MeanOf(hits)], pc |-> pc,
                       raised |-> "none", fwd |-> f, preds |-> <<>>]
         [] OTHER ->
              LET yh == Squeeze(f.v)
                  res == CallResult(pc, yh, Array1D(FloatNumbers(hp, batch)))
              IN [out |-> [loss |-> self.loss],
                  pc |-> [y_hat |-> res.y_hat, y |-> res.y],
                  raised |-> res.raised, fwd |-> f, preds |-> yh.data]

\* validation_epoch_end, lines 244-268: what is logged, and the accumulator
ValidationEpochEndResult(hp, pc) ==
    CASE hp.architecture = "categoric" ->
           [names |-> {"val_loss", "val_acc"}, pearson |-> NoValue, pc |-> pc,
            raised |-> "none", warned |-> FALSE]
      [] hp.architecture = "categoric_gen" ->
           [names |-> {"val_acc"}, pearson |-> NoValue, pc |-> pc,
            raised |-> "none", warned |-> FALSE]
      [] OTHER ->
           LET res == CalcResult(pc)
           IN [names |-> {"val_loss", "val_pearson"}, pearson |-> res.ret,
               pc |-> [y_hat |-> res.y_hat, y |-> res.y],
               raised |-> res.raised, warned |-> res.warned]

(***************************************************************************)
(* The model under the training harness: __init__, then a validation run   *)
(* (the harness's sanity check), then epochs of training steps,            *)
(* training_epoch_end, validation steps and validation_epoch_end.          *)
(***************************************************************************)
\* epochs the harness runs, the sanity check included
MaxEpochs == 2
\* batches of one training or validation run
MaxSteps == 2

Self == [y_hat |-> y_hat, y |-> y]

Construct(env, net, linear) ==
    /\ phase = "new"
    /\ model' = T5ASSINInit(hparams, env, net, linear)
    /\ phase' = IF model'.status = "ready" THEN "val" ELSE "failed"
    /\ y_hat' = PearsonCalculatorInit.y_hat
    /\ y' = PearsonCalculatorInit.y
    /\ last' = "__init__"
    /\ raised' = model'.error
    /\ UNCHANGED <<args, ret, warned, pairs, paired, used, decVars,
                   hparams, epoch, outputs, logs, fwd, epoch_pairs, reported>>

TrainingStep(batch, mask) ==
    LET res == TrainingStepResult(model, hparams, batch, mask)
    IN /\ phase = "train"
       /\ Len(outputs) < MaxSteps
       /\ fwd' = res.fwd
       /\ raised' = res.raised
       /\ last' = "training_step"
       /\ IF res.raised = "none"
          THEN outputs' = Append(outputs, res.out) /\ phase' = phase
          ELSE outputs' = outputs /\ phase' = "crashed"
       /\ ret' = NoValue
       /\ logs' = NoValue
       /\ reported' = NoValue
       /\ UNCHANGED <<y_hat, y, args, warned, pairs, paired, used, decVars,
                      hparams, model, epoch, epoch_pairs>>

\* the optimizer of configure_optimizers, lines 270-271, changes the weights
OptimizerStep(net, linear) ==
    /\ phase = "train"
    /\ last = "training_step"
    /\ model' = [model EXCEPT !.net = net, !.linear = linear]
    /\ model' # model
    /\ last' = "optimizer_step"
    /\ fwd' = NoValue
    /\ UNCHANGED <<y_hat, y, args, ret, raised, warned, pairs, paired, used, decVars,
                   hparams, phase, epoch, outputs, logs, epoch_pairs, reported>>

\* training_epoch_end, lines 235-242
TrainingEpochEnd ==
    /\ phase = "train"
    /\ outputs # <<>>
    /\ outputs' = <<>>
    /\ logs' = [names |-> {"train_loss"}, pearson |-> NoValue]
    /\ phase' = "val"
    /\ last' = "training_epoch_end"
    /\ fwd' = NoValue
    /\ ret' = NoValue
    /\ raised' = "none"
    /\ reported' = NoValue
    /\ UNCHANGED <<y_hat, y, args, warned, pairs, paired, used, decVars,
                   hparams, model, epoch, epoch_pairs>>

ValidationStep(batch) ==
    LET res == ValidationStepResult(model, hparams, Self, batch)
    IN /\ phase = "val"
       /\ Len(outputs) < MaxSteps
       /\ fwd' = res.fwd
       /\ raised' = res.raised
       /\ last' = "validation_step"
       /\ y_hat' = res.pc.y_hat
       /\ y' = res.pc.y
       /\ IF res.raised = "none"
          THEN outputs' = Append(outputs, res.out) /\ phase' = phase
          ELSE outputs' = outputs /\ phase' = "crashed"
       /\ epoch_pairs' = epoch_pairs \o Zip(res.preds, FloatNumbers(hparams, batch))
       /\ ret' = NoValue
       /\ logs' = NoValue
       /\ reported' = NoValue
       /\ UNCHANGED <<args, warned, pairs, paired, used, decVars, hparams, model, epoch>>

ValidationEpochEnd ==
    LET res == ValidationEpochEndResult(hparams, Self)
    IN /\ phase = "val"
       /\ outputs # <<>>
       /\ y_hat' = res.pc.y_hat
       /\ y' = res.pc.y
       /\ ret' = res.pearson
       /\ raised' = res.raised
       /\ warned' = res.warned
       /\ logs' = [names |-> res.names, pearson |-> res.pearson,
                   monitor |-> MonitorFor(hparams.architecture)]
       /\ last' = "validation_epoch_end"
       /\ fwd' = NoValue
       /\ reported' = [k |-> "reported", pairs |-> epoch_pairs]
       /\ epoch_pairs' = <<>>
       /\ outputs' = <<>>
       /\ epoch' = epoch + 1
       /\ phase' = IF res.raised # "none" THEN "crashed"
                   ELSE IF epoch + 1 < MaxEpochs THEN "train" ELSE "done"
       /\ UNCHANGED <<args, pairs, paired, used, decVars, hparams, model>>

InitModel ==
    /\ hparams \in HParams
    /\ model = NoValue
    /\ phase = "new"
    /\ epoch = 0
    /\ outputs = <<>>
    /\ logs = NoValue
    /\ fwd = NoValue
    /\ epoch_pairs = <<>>
    /\ reported = NoValue
    /\ y_hat = PearsonCalculatorInit.y_hat
    /\ y = PearsonCalculatorInit.y
    /\ last = "init"
    /\ args = <<>>
    /\ ret = NoValue
    /\ raised = "none"
    /\ warned = FALSE
    /\ pairs = <<>>
    /\ paired = TRUE
    /\ used = NoValue
    /\ text = <<>>
    /\ decoded = NoValue

NextModel ==
    \/ \E env \in Envs, net \in NetsFor(hparams), linear \in HeadsFor(hparams) :
          Construct(env, net, linear)
    \/ \E batch \in BatchesFor(hparams) :
          \E mask \in [1..Len(batch) -> BOOLEAN] : TrainingStep(batch, mask)
    \/ \E net \in NetsFor(hparams), linear \in HeadsFor(hparams) : OptimizerStep(net, linear)
    \/ TrainingEpochEnd
    \/ \E batch \in BatchesFor(hparams) : ValidationStep(batch)
    \/ ValidationEpochEnd

SpecModel == InitModel /\ [][NextModel]_vars

(***************************************************************************)
(* Properties of the accumulator (SpecAcc).                                *)
(***************************************************************************)
Preds(ps) == [i \in 1..Len(ps) |-> ps[i][1]]
Targets(ps) == [i \in 1..Len(ps) |-> ps[i][2]]

\* C1: while every __call__ since the reset had equal-length one-dimensional
\* arrays, the running sequences are the in-order concatenations of the observed
\* predictions and targets, and calculate_pearson returns the correlation that
\* one pearsonr call on the full concatenated arrays gives.
C1_PearsonOfConcatenation ==
    /\ paired => y_hat = Preds(pairs) /\ y = Targets(pairs)
    /\ (last = "calculate_pearson" /\ used.paired /\ Len(used.pairs) >= 2)
           => /\ raised = "none"
              /\ ret = pearsonr(Targets(used.pairs), Preds(used.pairs))

\* C1: a correlation was computed over more pairs than one call can bring
C1_Witness ==
    /\ last = "calculate_pearson"
    /\ used.paired
    /\ Len(used.pairs) > MaxBatch
    /\ ret.k = "r"
    /\ ret.s = -1

\* C2: every calculate_pearson leaves both running sequences empty.
C2_EmptyAfterCalculate ==
    last = "calculate_pearson" => y_hat = <<>> /\ y = <<>>

BadShapes(shapes) ==
    \/ Len(shapes[1]) # 1
    \/ Len(shapes[2]) # 1
    \/ shapes[1] # shapes[2]

\* C3: a __call__ whose arguments are not both one-dimensional or differ in
\* length raises, and leaves both running sequences as they were.
C3_BadShapesRejected ==
    [][(last' = "call" /\ BadShapes(args'))
          => (raised' # "none" /\ y_hat' = y_hat /\ y' = y)]_vars

\* C4: calculate_pearson returns NaN with a warning and without raising when
\* fewer than 2 observations were accumulated (0 or 1), and takes the pearsonr
\* path (no warning; pearsonr's value returned or its exception raised) when 2
\* or more were.
C4_NaNBelowTwoSamples ==
    last = "calculate_pearson" =>
        /\ Max(used.n_hat, used.n_y) < 2
              => (ret = NaN /\ warned /\ raised = "none")
        /\ Min(used.n_hat, used.n_y) >= 2
              => /\ ~warned
                 /\ \/ raised = "ValueError" /\ ret = NoValue
                    \/ raised = "none" /\ ret.k \in {"r", "nan"}
        /\ (used.paired /\ Len(used.pairs) >= 2) => ret.k \in {"r", "nan"}

\* C4: both paths were taken: here the NaN path with one observation
C4_Witness ==
    /\ last = "calculate_pearson"
    /\ used.n_hat = 1
    /\ used.n_y = 1
    /\ ret = NaN
    /\ warned

\* C8: the two running sequences always have equal length.
C8_EqualLengths == Len(y_hat) = Len(y)

(***************************************************************************)
(* Properties of the numeric decoding (SpecDec).                           *)
(***************************************************************************)
Parsed(words) == SelectSeq(words, LAMBDA w : ParseFloat(w) # ValueError)

InScoreRange(v) ==
    /\ v.k = "num"
    /\ v.d <= v.n
    /\ v.n <= 5 * v.d

\* C5: the decoded value is the first token float() accepts, clamped into
\* [1.0, 5.0], or 0.0 when no token parses: always 0.0 or within [1.0, 5.0].
C5_FirstNumberClamped ==
    decoded # NoValue =>
        LET nums == Parsed(Split(text))
        IN IF nums = <<>> THEN decoded = Num(0, 1)
           ELSE LET first == ParseFloat(Head(nums))
                IN /\ InScoreRange(decoded)
                   /\ InScoreRange(first) => decoded = first

(***************************************************************************)
(* Properties of T5ASSIN under the harness (SpecModel).                    *)
(***************************************************************************)
\* the four mode strings the code tests for
NamedModes == {"mlp", "categoric", "gen", "categoric_gen"}
\* the five modes of the policy table
RecognizedModes == NamedModes \cup {"similarity"}

\* construction did not get as far as the architecture: a load raised, there
\* is no size in model_name, or no single PTT5 checkpoint and config
FailedBeforeMode ==
    \/ model.error = "OSError"
    \/ model.error = "ValueError" /\ DetectSize(hparams.model_name) = "ValueError"
    \/ model.error \in {"AssertionError", "UnpicklingError"} /\ IsPTT5(hparams.model_name)

ScoresWithin(rows, lo, hi) ==
    \A i \in 1..Len(rows) : \A c \in 1..Len(rows[i]) : lo <= rows[i][c] /\ rows[i][c] <= hi

\* C6: construction with a mode string that is not one of the five
\* recognized modes fails, so no step ever runs under such a mode.
C6_UnknownModeRejected ==
    (phase # "new" /\ hparams.architecture \notin RecognizedModes)
        => model.status = "failed"

\* C7: in the categoric mode a class count that is not > 1 fails at
\* construction; a class count > 1 gives a head of that many outputs and
\* CrossEntropyLoss.
C7_ClassCountAboveOne ==
    (hparams.architecture = "categoric" /\ phase # "new") =>
        /\ hparams.nout <= 1 => model.status = "failed"
        /\ hparams.nout > 1 =>
              /\ model.status = "failed" => FailedBeforeMode
              /\ model.status = "ready" =>
                    /\ model.linear.out = hparams.nout
                    /\ model.loss = "CrossEntropyLoss"

\* C9: in the mlp mode every score forward returns lies in [1, 5].
C9_MlpScoresInRange ==
    (hparams.architecture = "mlp" /\ fwd.k = "rows") => ScoresWithin(fwd.v, Fixed(1), Fixed(5))

RegressionModes == {"similarity", "mlp", "gen"}

\* C10: in a regression mode every validation step appends its batch's pairs
\* to the accumulator and validation_epoch_end consumes and resets it: during a
\* validation run the accumulator holds exactly this epoch's pairs, and the
\* epoch's Pearson value is computed over them.
C10_EpochPairsAccumulated ==
    hparams.architecture \in RegressionModes =>
        /\ phase = "val" =>
              /\ Len(y_hat) = Len(epoch_pairs)
              /\ Len(y) = Len(epoch_pairs)
              /\ y_hat = Preds(epoch_pairs)
              /\ y = Targets(epoch_pairs)
        /\ last = "validation_epoch_end" =>
              /\ y_hat = <<>>
              /\ y = <<>>
              /\ Len(reported.pairs) >= 2 => ~warned
              /\ (Len(reported.pairs) >= 2 /\ hparams.architecture # "gen")
                    => ret = pearsonr(Targets(reported.pairs), Preds(reported.pairs))

====
